---- MODULE Spec2Model ----
(***************************************************************************)
(* State-machine model of CKEditorComponent (the Angular wrapper of a      *)
(* CKEditor 4 instance): the lifecycle hooks, the data / readOnly          *)
(* accessors, the instanceReady handshake of createEditor, the change      *)
(* handler propagateChange and the relayed native events.                  *)
(*                                                                         *)
(* The editor library is an external collaborator.  It is modelled by the  *)
(* calls the component makes on it (counted in `calls`), by the content it *)
(* stores (after setData the stored value is ANY value of Data: the editor *)
(* may filter or normalise what it is given) and by the callbacks and      *)
(* native events it delivers, each as an environment action.               *)
(*                                                                         *)
(* Three specifications share the actions:                                 *)
(*   Spec        lifecycle and the data / readOnly binding bridge;         *)
(*   SpecRelay   lifecycle and the event relay (the nine relayed events,   *)
(*               the change signals, the two form callbacks);              *)
(*   SpecShared  two components given one `config` object and one          *)
(*               namespace resolver.                                       *)
(*                                                                         *)
(* JavaScript null is the string "null"; the booleans of the read-only     *)
(* flag are the strings "true" / "false" so that they compare with null.   *)
(***************************************************************************)
EXTENDS Naturals, FiniteSets, Sequences, TLC

\* ---------------------------------------------------------------- bounds
\* Number of repeatable host / user operations (accessor calls, callback
\* registrations, native events, edits) in one behaviour.
MaxOps == 3

\* ---------------------------------------------------------------- values
Null == "null"

\* Editor contents.  "" is the content of the freshly created element.
Data == {"", "a", "b"}

\* What the host may write to `data`.
Values == Data \cup {Null}

Flags == {"true", "false"}

Callbacks == {"cb1", "cb2"}

\* What this.config?.on?.instanceReady may be: absent, or the host's function.
UserCallbacks == {Null, "onInstanceReady"}

Editor == "editor"

\* The native events propagateChange is bound to.
ChangeSignals == {"dataReady", "change", "selectionCheck"}

\* The native events subscribe() relays, each with the output it is
\* re-emitted on.
RelayOutput ==
    [focus |-> "focus", paste |-> "paste", afterPaste |-> "afterPaste",
     dragend |-> "dragEnd", dragstart |-> "dragStart", drop |-> "drop",
     fileUploadRequest |-> "fileUploadRequest",
     fileUploadResponse |-> "fileUploadResponse", blur |-> "blur"]

RelayEvents == DOMAIN RelayOutput

RelayOutputs == {RelayOutput[n] : n \in RelayEvents}

CallNames ==
    {"create", "setData", "getData", "setReadOnly", "lock", "unlock", "fire",
     "destroy", "on"}

Outputs ==
    {"ready", "change", "dataReady", "dataChange", "onChange", "onTouched"}
        \cup RelayOutputs

Range(f) == {f[i] : i \in DOMAIN f}

VARIABLES
    _data,        \* this._data
    _readOnly,    \* this._readOnly
    _destroyed,   \* this._destroyed
    instance,     \* this.instance
    onChange,     \* this.onChange
    onTouched,    \* this.onTouched
    nsState,      \* the getEditorNamespace promise of ngAfterViewInit
    edState,      \* the editor started by createEditor
    content,      \* what editor.getData() returns
    edReadOnly,   \* editor.readOnly
    hasUndo,      \* editor.undoManager is present
    undoLocked,   \* undoManager.lock() without unlock()
    cbPending,    \* a setData completion callback is outstanding
    subs,         \* native events the component has a handler on
    calls,        \* number of calls of each editor method
    out,          \* number of emissions of each output / callback
    thrown,       \* an uncaught TypeError was raised
    logged,       \* window.console.error calls
    noops,        \* writes of `data` that returned early, by instance presence
    ops,          \* repeatable operations performed so far
    lastOp,       \* the operation that ran last
    trail,        \* what the last operation called and emitted, in order
    shared,       \* the two components of SpecShared
    registered,   \* the callbacks registered so far, by kind
    userInstanceReadyCallback   \* the closure variable of createEditor

vars ==
    <<_data, _readOnly, _destroyed, instance, onChange, onTouched, nsState, edState,
      content, edReadOnly, hasUndo, undoLocked, cbPending, subs, calls, out, thrown,
      logged, noops, ops, lastOp, trail, shared, registered,
      userInstanceReadyCallback>>

compVars == <<_data, _readOnly, _destroyed, instance, onChange, onTouched>>

editorVars == <<edState, content, edReadOnly, hasUndo, undoLocked, cbPending, subs>>

Inc(f, k) == [f EXCEPT ![k] = @ + 1]

Op(name, arg) == [op |-> name, arg |-> arg]

\* ------------------------------------------------------------------ Init
\* The two components of SpecShared; the editor a component creates is
\* named after it.
Comps == {"A", "B"}

\* The state of SpecShared before the host binds `config`: the config
\* object both components are given, the memoized namespace promise, and
\* each component's fields.
SharedInit ==
    [cfg |-> "unset",
     onReady |-> Null,
     loader |-> "idle",
     loaderCb |-> Null,
     ns |-> [c \in Comps |-> "init"],
     destroyed |-> [c \in Comps |-> FALSE],
     instance |-> [c \in Comps |-> Null],
     userCb |-> [c \in Comps |-> Null],
     editor |-> [c \in Comps |-> "none"],
     edHandler |-> [c \in Comps |-> Null],
     handshakes |-> {},
     nsLoaded |-> [c \in Comps |-> 0]]

Init ==
    /\ _data = Null
    /\ _readOnly = Null
    /\ _destroyed = FALSE
    /\ instance = Null
    /\ onChange = Null
    /\ onTouched = Null
    /\ nsState = "init"
    /\ edState = "none"
    /\ content = ""
    /\ edReadOnly \in Flags
    /\ hasUndo \in BOOLEAN
    /\ undoLocked = FALSE
    /\ cbPending = FALSE
    /\ subs = {}
    /\ calls = [c \in CallNames |-> 0]
    /\ out = [o \in Outputs |-> 0]
    /\ thrown = FALSE
    /\ logged = 0
    /\ noops = [buffered |-> 0, live |-> 0]
    /\ ops = 0
    /\ lastOp = Op("constructor", Null)
    /\ trail = <<>>
    /\ shared = SharedInit
    /\ registered = [onChange |-> {}, onTouched |-> {}]
    /\ userInstanceReadyCallback = Null

\* ------------------------------------------------------- pure handlers
\* The part of the state a handler run works on, threaded through the calls
\* it makes: r.data is this._data, r.out / r.calls the counters, r.thrown
\* whether the run ended in an uncaught TypeError, r.zone whether the code
\* is executing inside the Angular zone and r.trail what it has called and
\* emitted so far.
Start(zone) ==
    [data |-> _data, out |-> out, calls |-> calls, thrown |-> FALSE,
     trail |-> <<>>, zone |-> zone]

\* A callback the editor invokes: the editor was created outside the zone.
Run == Start(FALSE)

\* A hook or accessor the host framework invokes, inside the zone.
HostRun == Start(TRUE)

\* The run's effects become the next state.
Commit(r) ==
    /\ _data' = r.data
    /\ out' = r.out
    /\ calls' = r.calls
    /\ thrown' = (thrown \/ r.thrown)
    /\ trail' = r.trail

Log(r, ev, arg, fn) ==
    [r EXCEPT !.trail = Append(@, [ev |-> ev, arg |-> arg, fn |-> fn, zone |-> r.zone])]

\* output.emit( arg )
Emit(r, o, arg) == Log([r EXCEPT !.out = Inc(@, o)], o, arg, Null)

\* this.onChange( arg ) / this.onTouched(): kind is the field, fn the
\* function it holds.
Invoke(r, kind, fn, arg) == Log([r EXCEPT !.out = Inc(@, kind)], kind, arg, fn)

\* A call of an editor method.
Call(r, c, arg) == Log([r EXCEPT !.calls = Inc(@, c)], c, arg, Null)

\* this.ngZone.run( ... ) and this.ngZone.runOutsideAngular( ... ); ZoneExit
\* restores the caller's zone when the callback returns.
ZoneRun(r) == [Log(r, "ngZone.run", Null, Null) EXCEPT !.zone = TRUE]

ZoneOutside(r) == [Log(r, "ngZone.runOutsideAngular", Null, Null) EXCEPT !.zone = FALSE]

ZoneExit(r, zone) == [r EXCEPT !.zone = zone]

\* A getter that reports null as the empty string.
DataGet_EmptyForNull == IF _data = Null THEN "" ELSE _data

\* get data()
DataGet == _data

\* A getter that always asks the editor.
ReadOnlyGet_AlwaysLive == edReadOnly

\* get readOnly()
ReadOnlyGet == IF instance # Null THEN edReadOnly ELSE _readOnly

\* The typed output of propagateChange for the event that fired.
typedEmit(name, r) ==
    IF name = "change"
    THEN Emit(r, "change", name)
    ELSE IF name = "dataReady" THEN Emit(r, "dataReady", name) ELSE r

\* Propagation that calls onChange before it emits dataChange.
propagate_CallbackFirst(r) ==
    LET stored == Log([r EXCEPT !.data = content], "_data", content, Null)
    IN  IF onChange # Null
        THEN Emit(Invoke(stored, "onChange", onChange, content), "dataChange", content)
        ELSE Emit(stored, "dataChange", content)

\* this._data = newData; this.dataChange.emit( newData ); this.onChange( newData )
propagate(r) ==
    LET stored == Log([r EXCEPT !.data = content], "_data", content, Null)
        emitted == Emit(stored, "dataChange", content)
    IN  IF onChange # Null
        THEN Invoke(emitted, "onChange", onChange, content)
        ELSE emitted

\* propagateChange without the `newData === this.data` early return.
propagateChange_NoEqualityCheck(name, r) ==
    LET z == ZoneRun(r)
    IN  IF instance = Null
        THEN ZoneExit([z EXCEPT !.thrown = TRUE], r.zone)
        ELSE ZoneExit(propagate(typedEmit(name, Call(z, "getData", content))), r.zone)

\* propagateChange that notifies without storing the value it read.
propagateChange_KeepsData(name, r) ==
    LET z == ZoneRun(r)
    IN  IF instance = Null
        THEN ZoneExit([z EXCEPT !.thrown = TRUE], r.zone)
        ELSE LET typed == typedEmit(name, Call(z, "getData", content))
             IN  ZoneExit(IF content = typed.data
                          THEN typed
                          ELSE [propagate(typed) EXCEPT !.data = typed.data],
                          r.zone)

\* propagateChange that emits the typed output only after the equality
\* check let it through.
propagateChange_ChecksFirst(name, r) ==
    LET z == ZoneRun(r)
    IN  IF instance = Null
        THEN ZoneExit([z EXCEPT !.thrown = TRUE], r.zone)
        ELSE LET read == Call(z, "getData", content)
             IN  ZoneExit(IF content = read.data
                          THEN read
                          ELSE propagate(typedEmit(name, read)),
                          r.zone)

\* propagateChange( event ): inside ngZone.run it reads
\* this.instance.getData(), emits the typed output, and propagates the value
\* only when it differs from this.data.  this.instance.getData() on a null
\* instance is a TypeError.
propagateChange(name, r) ==
    LET z == ZoneRun(r)
    IN  IF instance = Null
        THEN ZoneExit([z EXCEPT !.thrown = TRUE], r.zone)
        ELSE LET typed == typedEmit(name, Call(z, "getData", content))
             IN  ZoneExit(IF content = typed.data THEN typed ELSE propagate(typed),
                          r.zone)

\* A relay handler emitting without the event it received.
relay_DropsPayload(name, r) ==
    LET z == ZoneRun(r)
        touched == IF name = "blur" /\ onTouched # Null
                   THEN Invoke(z, "onTouched", onTouched, Null)
                   ELSE z
    IN  ZoneExit(Emit(touched, RelayOutput[name], Null), r.zone)

\* A relay handler emitting blur before it calls onTouched.
relay_EmitsBeforeTouched(name, r) ==
    LET emitted == Emit(ZoneRun(r), RelayOutput[name], name)
    IN  ZoneExit(IF name = "blur" /\ onTouched # Null
                 THEN Invoke(emitted, "onTouched", onTouched, Null)
                 ELSE emitted,
                 r.zone)

\* The handler subscribe() installs on a relayed event: inside ngZone.run
\* it calls onTouched (blur only, when set) and re-emits the event.
relay(name, r) ==
    LET z == ZoneRun(r)
        touched == IF name = "blur" /\ onTouched # Null
                   THEN Invoke(z, "onTouched", onTouched, Null)
                   ELSE z
    IN  ZoneExit(Emit(touched, RelayOutput[name], name), r.zone)

\* editor.fire( name ) called by the component: the handlers subscribed to
\* `name` run synchronously inside the call.
fire(name, r) ==
    LET fired == Call(r, "fire", name)
    IN  IF name \in subs THEN propagateChange(name, fired) ELSE fired

\* The relayed events in the order subscribe() binds them.
relayed ==
    <<"focus", "paste", "afterPaste", "dragend", "dragstart", "drop",
      "fileUploadRequest", "fileUploadResponse", "blur">>

\* subscribe without the 'dataReady' subscription.
subscribe_NoDataReady ==
    relayed \o (IF hasUndo THEN <<"change">> ELSE <<"selectionCheck">>)

\* subscribe binding propagateChange to both of the change signals.
subscribe_Both == relayed \o <<"dataReady", "change", "selectionCheck">>

\* subscribe( editor ): the events a handler is bound to with editor.on, in
\* source order.
subscribe ==
    relayed \o <<"dataReady">> \o (IF hasUndo THEN <<"change">> ELSE <<"selectionCheck">>)

\* The editor.on calls of subscribe.
RECURSIVE bind(_, _)
bind(names, r) ==
    IF names = <<>> THEN r ELSE bind(Tail(names), Call(r, "on", Head(names)))

\* set readOnly that also buffers the flag when an instance exists.
readOnlySet_AlwaysBuffers(inst, isReadOnly, r) ==
    IF inst # Null
    THEN [readOnly |-> isReadOnly, edReadOnly |-> isReadOnly,
          run |-> Call(r, "setReadOnly", isReadOnly)]
    ELSE [readOnly |-> isReadOnly, edReadOnly |-> edReadOnly, run |-> r]

\* set readOnly( isReadOnly ), run with this.instance = inst.  The result is
\* the new this._readOnly, the editor's read-only state and the run.
readOnlySet(inst, isReadOnly, r) ==
    IF inst # Null
    THEN [readOnly |-> _readOnly, edReadOnly |-> isReadOnly,
          run |-> Call(r, "setReadOnly", isReadOnly)]
    ELSE [readOnly |-> isReadOnly, edReadOnly |-> edReadOnly, run |-> r]

\* The handshake adopting the editor's own state whatever was buffered.
effectiveReadOnly_IgnoresBuffer == edReadOnly

\* The handshake making the editor writable when nothing was buffered.
effectiveReadOnly_DefaultsWritable == IF _readOnly # Null THEN _readOnly ELSE "false"

\* this._readOnly !== null ? this._readOnly : this.instance.readOnly
effectiveReadOnly == IF _readOnly # Null THEN _readOnly ELSE edReadOnly

\* The completion callback synthesizing an event unconditionally.
diverged_Always == TRUE

\* this.data !== editor.getData() in the setData completion callback
diverged == DataGet # content

\* A push that keeps the value written instead of reading the editor back.
push_KeepsWritten(data, stored) ==
    [Call(HostRun, "setData", data) EXCEPT !.data = data]

\* instance.setData( data ); this._data = instance.getData(): the editor
\* stores `stored`.
push(data, stored) ==
    [Call(Call(HostRun, "setData", data), "getData", stored) EXCEPT !.data = stored]

\* set data keeping the value passed in instead of the editor's.
SetData_KeepsInput(data) ==
    IF data = _data
    THEN /\ noops' = Inc(noops, IF instance # Null THEN "live" ELSE "buffered")
         /\ Commit(HostRun)
         /\ UNCHANGED content
    ELSE IF instance # Null
         THEN \E stored \in Data :
                 /\ content' = stored
                 /\ Commit([push(data, stored) EXCEPT !.data = data])
                 /\ UNCHANGED noops
         ELSE /\ Commit([HostRun EXCEPT !.data = data])
              /\ UNCHANGED <<content, noops>>

\* set data without the `data === this._data` early return.
SetData_NoEqualityCheck(data) ==
    IF instance # Null
    THEN \E stored \in Data :
            /\ content' = stored
            /\ Commit(push(data, stored))
            /\ UNCHANGED noops
    ELSE /\ Commit([HostRun EXCEPT !.data = data])
         /\ UNCHANGED <<content, noops>>

\* set data that drops a value written while no instance exists.
SetData_DropsBuffered(data) ==
    IF data = _data
    THEN /\ noops' = Inc(noops, IF instance # Null THEN "live" ELSE "buffered")
         /\ Commit(HostRun)
         /\ UNCHANGED content
    ELSE IF instance # Null
         THEN \E stored \in Data :
                 /\ content' = stored
                 /\ Commit(push(data, stored))
                 /\ UNCHANGED noops
         ELSE /\ Commit(HostRun)
              /\ UNCHANGED <<content, noops>>

\* set data( data )
SetData(data) ==
    IF data = _data
    THEN /\ noops' = Inc(noops, IF instance # Null THEN "live" ELSE "buffered")
         /\ Commit(HostRun)
         /\ UNCHANGED content
    ELSE IF instance # Null
         THEN \E stored \in Data :
                 /\ content' = stored
                 /\ Commit(push(data, stored))
                 /\ UNCHANGED noops
         ELSE /\ Commit([HostRun EXCEPT !.data = data])
              /\ UNCHANGED <<content, noops>>

\* --------------------------------------------------------------- actions
\* [data]="..." input binding
DataSet(v) ==
    /\ ops < MaxOps
    /\ SetData(v)
    /\ ops' = ops + 1
    /\ lastOp' = Op("data", v)
    /\ UNCHANGED <<_readOnly, _destroyed, instance, onChange, onTouched, nsState,
                   edState, edReadOnly, hasUndo, undoLocked, cbPending, subs, logged,
                   shared,
                   registered, userInstanceReadyCallback>>

\* writeValue( value ) { this.data = value; }
WriteValue(v) ==
    /\ ops < MaxOps
    /\ SetData(v)
    /\ ops' = ops + 1
    /\ lastOp' = Op("writeValue", v)
    /\ UNCHANGED <<_readOnly, _destroyed, instance, onChange, onTouched, nsState,
                   edState, edReadOnly, hasUndo, undoLocked, cbPending, subs, logged,
                   shared,
                   registered, userInstanceReadyCallback>>

\* [readOnly]="..." input binding
ReadOnlySet(flag) ==
    /\ ops < MaxOps
    /\ LET ro == readOnlySet(instance, flag, HostRun)
       IN  /\ _readOnly' = ro.readOnly
           /\ edReadOnly' = ro.edReadOnly
           /\ Commit(ro.run)
    /\ ops' = ops + 1
    /\ lastOp' = Op("readOnly", flag)
    /\ UNCHANGED <<noops, _destroyed, instance, onChange, onTouched, nsState, edState,
                   content, hasUndo, undoLocked, cbPending, subs, logged, shared,
                   registered, userInstanceReadyCallback>>

\* registerOnChange keeping the callback registered first.
RegisterOnChange_KeepsFirst(cb) ==
    /\ ops < MaxOps
    /\ onChange' = IF onChange = Null THEN cb ELSE onChange
    /\ registered' = [registered EXCEPT !.onChange = @ \cup {cb}]
    /\ Commit(HostRun)
    /\ ops' = ops + 1
    /\ lastOp' = Op("registerOnChange", cb)
    /\ UNCHANGED <<_readOnly, _destroyed, instance, onTouched, nsState, logged, noops,
                   shared, userInstanceReadyCallback>>
    /\ UNCHANGED editorVars

\* registerOnChange( callback )
RegisterOnChange(cb) ==
    /\ ops < MaxOps
    /\ onChange' = cb
    /\ registered' = [registered EXCEPT !.onChange = @ \cup {cb}]
    /\ Commit(HostRun)
    /\ ops' = ops + 1
    /\ lastOp' = Op("registerOnChange", cb)
    /\ UNCHANGED <<_readOnly, _destroyed, instance, onTouched, nsState, logged, noops,
                   shared, userInstanceReadyCallback>>
    /\ UNCHANGED editorVars

\* registerOnTouched( callback )
RegisterOnTouched(cb) ==
    /\ ops < MaxOps
    /\ onTouched' = cb
    /\ registered' = [registered EXCEPT !.onTouched = @ \cup {cb}]
    /\ Commit(HostRun)
    /\ ops' = ops + 1
    /\ lastOp' = Op("registerOnTouched", cb)
    /\ UNCHANGED <<_readOnly, _destroyed, instance, onChange, nsState, logged, noops,
                   shared, userInstanceReadyCallback>>
    /\ UNCHANGED editorVars

\* ngAfterViewInit(): getEditorNamespace( ... ) is started.
NgAfterViewInit ==
    /\ nsState = "init"
    /\ nsState' = "pending"
    /\ Commit(HostRun)
    /\ lastOp' = Op("ngAfterViewInit", Null)
    /\ UNCHANGED <<_readOnly, _destroyed, instance, onChange, onTouched, logged, noops,
                   ops, shared,
                   registered, userInstanceReadyCallback>>
    /\ UNCHANGED editorVars

\* createEditor(): CKEDITOR.replace / CKEDITOR.inline is called with the
\* instanceReady handler installed.  The handler closes over
\* userInstanceReadyCallback, read from this.config when createEditor runs.
createEditor(r) == Call(r, "create", Null)

\* this.ngZone.runOutsideAngular( this.createEditor.bind( this ) )
createOutside == ZoneExit(createEditor(ZoneOutside(HostRun)), TRUE)

\* The .then() callback without the `this._destroyed` check.
NamespaceResolved_NoDestroyedCheck ==
    /\ nsState = "pending"
    /\ nsState' = "resolved"
    /\ Commit(createOutside)
    /\ edState' = "creating"
    /\ \E cb \in UserCallbacks : userInstanceReadyCallback' = cb
    /\ lastOp' = Op("namespaceResolved", Null)
    /\ UNCHANGED <<_readOnly, _destroyed, instance, onChange, onTouched, content,
                   edReadOnly, hasUndo, undoLocked, cbPending, subs, logged, noops, ops,
                   shared,
                   registered>>

\* The .then() callback of ngAfterViewInit.
NamespaceResolved ==
    /\ nsState = "pending"
    /\ nsState' = "resolved"
    /\ IF _destroyed
       THEN /\ Commit(HostRun)
            /\ UNCHANGED <<edState, userInstanceReadyCallback>>
       ELSE /\ Commit(createOutside)
            /\ edState' = "creating"
            /\ \E cb \in UserCallbacks : userInstanceReadyCallback' = cb
    /\ lastOp' = Op("namespaceResolved", Null)
    /\ UNCHANGED <<_readOnly, _destroyed, instance, onChange, onTouched, content,
                   edReadOnly, hasUndo, undoLocked, cbPending, subs, logged, noops, ops,
                   shared,
                   registered>>

\* A catch handler that goes on to create the editor.
NamespaceRejected_Retries ==
    /\ nsState = "pending"
    /\ nsState' = "rejected"
    /\ logged' = logged + 1
    /\ Commit(createOutside)
    /\ edState' = "creating"
    /\ \E cb \in UserCallbacks : userInstanceReadyCallback' = cb
    /\ lastOp' = Op("namespaceRejected", Null)
    /\ UNCHANGED <<_readOnly, _destroyed, instance, onChange, onTouched, content,
                   edReadOnly, hasUndo, undoLocked, cbPending, subs, noops, ops, shared,
                   registered>>

\* The .catch( window.console.error ) of ngAfterViewInit.
NamespaceRejected ==
    /\ nsState = "pending"
    /\ nsState' = "rejected"
    /\ logged' = logged + 1
    /\ Commit(HostRun)
    /\ lastOp' = Op("namespaceRejected", Null)
    /\ UNCHANGED <<_readOnly, _destroyed, instance, onChange, onTouched, noops, ops,
                   shared,
                   registered, userInstanceReadyCallback>>
    /\ UNCHANGED editorVars

\* ngOnDestroy that destroys the editor without leaving the zone.
NgOnDestroy_InZone ==
    /\ _destroyed' = TRUE
    /\ IF instance # Null
       THEN /\ Commit(Call(HostRun, "destroy", Null))
            /\ edState' = "destroyed"
            /\ instance' = Null
       ELSE /\ Commit(HostRun)
            /\ UNCHANGED <<edState, instance>>
    /\ lastOp' = Op("ngOnDestroy", Null)
    /\ UNCHANGED <<_readOnly, onChange, onTouched, nsState, content, edReadOnly,
                   hasUndo, undoLocked, cbPending, subs, logged, noops, ops, shared,
                   registered, userInstanceReadyCallback>>

\* ngOnDestroy()
NgOnDestroy ==
    /\ _destroyed' = TRUE
    /\ IF instance # Null
       THEN /\ Commit(ZoneExit(Call(ZoneOutside(HostRun), "destroy", Null), TRUE))
            /\ edState' = "destroyed"
            /\ instance' = Null
       ELSE /\ Commit(ZoneExit(ZoneOutside(HostRun), TRUE))
            /\ UNCHANGED <<edState, instance>>
    /\ lastOp' = Op("ngOnDestroy", Null)
    /\ UNCHANGED <<_readOnly, onChange, onTouched, nsState, content, edReadOnly,
                   hasUndo, undoLocked, cbPending, subs, logged, noops, ops, shared,
                   registered, userInstanceReadyCallback>>

\* if ( typeof userInstanceReadyCallback === 'function' ) userInstanceReadyCallback( evt )
userCallback(r) ==
    IF userInstanceReadyCallback # Null
    THEN Log(r, "userInstanceReadyCallback", "instanceReady", Null)
    ELSE r

\* Emitting ready before the user's callback is called.
emitReady_BeforeUserCallback(r) ==
    ZoneExit(userCallback(Emit(ZoneRun(r), "ready", "instanceReady")), r.zone)

\* this.ngZone.run( () => { userInstanceReadyCallback( evt ); this.ready.emit( evt ); } )
emitReady(r) ==
    ZoneExit(Emit(userCallback(ZoneRun(r)), "ready", "instanceReady"), r.zone)

\* config.on.instanceReady = evt => { ... }: the editor created by
\* createEditor reports that it is ready.
InstanceReady ==
    /\ edState = "creating"
    /\ edState' = "ready"
    /\ instance' = Editor
    /\ LET ro == readOnlySet(Editor, effectiveReadOnly, Log(Run, "instance", Editor, Null))
           bound == bind(subscribe, ro.run)
       IN  /\ _readOnly' = ro.readOnly
           /\ edReadOnly' = ro.edReadOnly
           /\ subs' = Range(subscribe)
           /\ IF DataGet # Null
              THEN /\ undoLocked' = hasUndo
                   /\ \E stored \in Data : content' = stored
                   /\ Commit(Call(IF hasUndo THEN Call(bound, "lock", Null) ELSE bound,
                                  "setData", DataGet))
                   /\ cbPending' = TRUE
              ELSE /\ Commit(emitReady(bound))
                   /\ UNCHANGED <<undoLocked, content, cbPending>>
    /\ lastOp' = Op("instanceReady", Null)
    /\ UNCHANGED <<_destroyed, onChange, onTouched, nsState, hasUndo, logged, noops,
                   ops, shared,
                   registered, userInstanceReadyCallback>>

\* The completion callback given to editor.setData in the handshake.  A
\* TypeError raised inside editor.fire leaves the callback before unlock().
SetDataCallback ==
    /\ cbPending
    /\ cbPending' = FALSE
    /\ LET r0 == Call(Run, "getData", content)
           r1 == IF diverged
                 THEN fire(IF hasUndo THEN "change" ELSE "dataReady", r0)
                 ELSE r0
       IN  IF r1.thrown
           THEN /\ Commit(r1)
                /\ UNCHANGED undoLocked
           ELSE /\ Commit(emitReady(IF hasUndo THEN Call(r1, "unlock", Null) ELSE r1))
                /\ undoLocked' = IF hasUndo THEN FALSE ELSE undoLocked
    /\ lastOp' = Op("setDataCallback", Null)
    /\ UNCHANGED <<_readOnly, _destroyed, instance, onChange, onTouched, nsState,
                   edState, content, edReadOnly, hasUndo, subs, logged, noops, ops,
                   shared,
                   registered, userInstanceReadyCallback>>

\* The live editor fires a native event propagateChange is subscribed to.
\* A locked undoManager fires no 'change'.
NativeEvent(name) ==
    /\ ops < MaxOps
    /\ edState = "ready"
    /\ name \in subs
    /\ name = "change" => ~undoLocked
    /\ Commit(propagateChange(name, Run))
    /\ ops' = ops + 1
    /\ lastOp' = Op("native", name)
    /\ UNCHANGED <<_readOnly, _destroyed, instance, onChange, onTouched, nsState,
                   logged, noops, shared,
                   registered, userInstanceReadyCallback>>
    /\ UNCHANGED editorVars

\* The live editor fires one of the relayed native events.
RelayEvent(name) ==
    /\ ops < MaxOps
    /\ edState = "ready"
    /\ name \in subs
    /\ Commit(relay(name, Run))
    /\ ops' = ops + 1
    /\ lastOp' = Op("relay", name)
    /\ UNCHANGED <<_readOnly, _destroyed, instance, onChange, onTouched, nsState,
                   logged, noops, shared,
                   registered, userInstanceReadyCallback>>
    /\ UNCHANGED editorVars

\* The user edits the content of the live editor.
Edit(text) ==
    /\ ops < MaxOps
    /\ edState = "ready"
    /\ text # content
    /\ content' = text
    /\ Commit(Run)
    /\ ops' = ops + 1
    /\ lastOp' = Op("edit", text)
    /\ UNCHANGED <<_readOnly, _destroyed, instance, onChange, onTouched, nsState,
                   edState, edReadOnly, hasUndo, undoLocked, cbPending, subs, logged,
                   noops, shared,
                   registered, userInstanceReadyCallback>>

Next ==
    \/ \E v \in Values : DataSet(v)
    \/ \E v \in Values : WriteValue(v)
    \/ \E flag \in Flags : ReadOnlySet(flag)
    \/ \E cb \in Callbacks : RegisterOnChange(cb)
    \/ NgAfterViewInit
    \/ NamespaceResolved
    \/ NamespaceRejected
    \/ NgOnDestroy
    \/ InstanceReady
    \/ SetDataCallback
    \/ \E name \in ChangeSignals : NativeEvent(name)
    \/ \E text \in Data : Edit(text)

Spec == Init /\ [][Next]_vars

NextRelay ==
    \/ \E v \in Values : DataSet(v)
    \/ \E cb \in Callbacks : RegisterOnChange(cb)
    \/ \E cb \in Callbacks : RegisterOnTouched(cb)
    \/ NgAfterViewInit
    \/ NamespaceResolved
    \/ NamespaceRejected
    \/ NgOnDestroy
    \/ InstanceReady
    \/ SetDataCallback
    \/ \E name \in ChangeSignals : NativeEvent(name)
    \/ \E name \in RelayEvents : RelayEvent(name)
    \/ \E text \in Data : Edit(text)

SpecRelay == Init /\ [][NextRelay]_vars

TypeOK ==
    /\ _data \in Values
    /\ _readOnly \in Flags \cup {Null}
    /\ _destroyed \in BOOLEAN
    /\ instance \in {Null, Editor}
    /\ onChange \in Callbacks \cup {Null}
    /\ onTouched \in Callbacks \cup {Null}
    /\ nsState \in {"init", "pending", "resolved", "rejected"}
    /\ edState \in {"none", "creating", "ready", "destroyed"}
    /\ content \in Data
    /\ edReadOnly \in Flags
    /\ subs \subseteq ChangeSignals \cup RelayEvents
    /\ ops \in 0..MaxOps
    /\ \A i \in DOMAIN trail : trail[i].zone \in BOOLEAN
    /\ registered.onChange \subseteq Callbacks
    /\ registered.onTouched \subseteq Callbacks
    /\ userInstanceReadyCallback \in UserCallbacks

\* ------------------------------------------------- two components
\* Two components whose [config] input is bound to one object, with no
\* data bound to either.  Only `shared` changes.
mainVars ==
    <<_data, _readOnly, _destroyed, instance, onChange, onTouched, nsState, edState,
      content, edReadOnly, hasUndo, undoLocked, cbPending, subs, calls, out, thrown,
      logged, noops, ops, lastOp, trail, registered,
      userInstanceReadyCallback>>

\* The host creates the config object, with or without an `on` property.
SharedBindConfig(on) ==
    /\ shared.cfg = "unset"
    /\ shared' = [shared EXCEPT !.cfg = on]
    /\ UNCHANGED mainVars

\* getEditorNamespace( url, callback ): the first call starts the load and
\* keeps its callback; later calls return the same promise.
getEditorNamespace(c, s) ==
    IF s.loader = "idle"
    THEN [s EXCEPT !.loader = "loading", !.loaderCb = c]
    ELSE s

\* namespace => { this.namespaceLoaded.emit( namespace ); }
namespaceLoadedCallback(c, s) == [s EXCEPT !.nsLoaded[c] = @ + 1]

\* ngAfterViewInit() of component c
SharedAfterViewInit(c) ==
    /\ shared.cfg # "unset"
    /\ shared.ns[c] = "init"
    /\ shared' = [getEditorNamespace(c, shared) EXCEPT !.ns[c] = "pending"]
    /\ UNCHANGED mainVars

\* The editor script has loaded: the resolver calls the callback it kept.
SharedLoaded ==
    /\ shared.loader = "loading"
    /\ shared' = namespaceLoadedCallback(shared.loaderCb,
                                          [shared EXCEPT !.loader = "loaded"])
    /\ UNCHANGED mainVars

\* The editor script failed to load.
SharedLoadFailed ==
    /\ shared.loader = "loading"
    /\ shared' = [shared EXCEPT !.loader = "failed"]
    /\ UNCHANGED mainVars

\* createEditor() of component c: userInstanceReadyCallback is read from
\* this.config.on, config is a shallow copy of this.config (config.on is
\* the host's object when it has one), and the component's handler is
\* stored in config.on.instanceReady.  `bound` is what the editor has
\* bound to instanceReady when CKEDITOR.replace returns: the handler, or
\* "pending" when it reads config.on later.
sharedCreateEditor(c, bound, s) ==
    IF s.cfg = "on"
    THEN [s EXCEPT !.userCb[c] = s.onReady,
                   !.onReady = c,
                   !.editor[c] = "creating",
                   !.edHandler[c] = bound]
    ELSE [s EXCEPT !.editor[c] = "creating", !.edHandler[c] = c]

\* A .then() callback that also emits namespaceLoaded.
SharedResolved_EmitsOnThen(c) ==
    /\ shared.ns[c] = "pending"
    /\ shared.loader = "loaded"
    /\ \E bound \in {c, "pending"} :
          LET s == namespaceLoadedCallback(c, [shared EXCEPT !.ns[c] = "resolved"])
          IN  shared' = IF s.destroyed[c] THEN s ELSE sharedCreateEditor(c, bound, s)
    /\ UNCHANGED mainVars

\* The .then() callback of component c's ngAfterViewInit.
SharedResolved(c) ==
    /\ shared.ns[c] = "pending"
    /\ shared.loader = "loaded"
    /\ \E bound \in {c, "pending"} :
          LET s == [shared EXCEPT !.ns[c] = "resolved"]
          IN  shared' = IF s.destroyed[c] THEN s ELSE sharedCreateEditor(c, bound, s)
    /\ UNCHANGED mainVars

\* The .catch() of component c's ngAfterViewInit.
SharedRejected(c) ==
    /\ shared.ns[c] = "pending"
    /\ shared.loader = "failed"
    /\ shared' = [shared EXCEPT !.ns[c] = "rejected"]
    /\ UNCHANGED mainVars

\* The editor of component c binds the instanceReady listener it finds in
\* config.on.
SharedEditorBinds(c) ==
    /\ shared.edHandler[c] = "pending"
    /\ shared' = [shared EXCEPT !.edHandler[c] = shared.onReady]
    /\ UNCHANGED mainVars

\* The handler createEditor of component h installed, called with
\* evt.editor = e: it stores the editor, and (no data being bound) calls
\* the userInstanceReadyCallback it captured.
RECURSIVE instanceReadyHandler(_, _, _)
instanceReadyHandler(h, e, s) ==
    LET stored == [s EXCEPT !.instance[h] = e,
                            !.handshakes = @ \cup {<<h, e>>}]
    IN  IF s.userCb[h] # Null
        THEN instanceReadyHandler(s.userCb[h], e, stored)
        ELSE stored

\* The editor component c created fires instanceReady.
SharedInstanceReady(c) ==
    /\ shared.editor[c] = "creating"
    /\ shared.edHandler[c] \in Comps
    /\ shared' = instanceReadyHandler(shared.edHandler[c], c,
                                       [shared EXCEPT !.editor[c] = "ready"])
    /\ UNCHANGED mainVars

\* ngOnDestroy() of component c
SharedDestroy(c) ==
    /\ shared.cfg # "unset"
    /\ shared' = IF shared.instance[c] # Null
                 THEN [shared EXCEPT !.destroyed[c] = TRUE,
                                     !.editor[shared.instance[c]] = "destroyed",
                                     !.instance[c] = Null]
                 ELSE [shared EXCEPT !.destroyed[c] = TRUE]
    /\ UNCHANGED mainVars

NextShared ==
    \/ \E on \in {"on", "noOn"} : SharedBindConfig(on)
    \/ \E c \in Comps : SharedAfterViewInit(c)
    \/ SharedLoaded
    \/ SharedLoadFailed
    \/ \E c \in Comps : SharedResolved(c)
    \/ \E c \in Comps : SharedRejected(c)
    \/ \E c \in Comps : SharedEditorBinds(c)
    \/ \E c \in Comps : SharedInstanceReady(c)
    \/ \E c \in Comps : SharedDestroy(c)

SpecShared == Init /\ [][NextShared]_vars

\* ---------------------------------------------------------------- claims
IsWrite(op) == op.op \in {"data", "writeValue"}

\* Typed change notifications emitted so far (change and dataReady outputs).
Typed(o) == o["change"] + o["dataReady"]

\* C1: once ngOnDestroy has run while no editor has been created (the
\* namespace promise is still unresolved, or resolves or rejects later), every
\* later step leaves createEditor uncalled, `instance` null and raises no
\* exception.
C1_NoEditorAfterEarlyDestroy ==
    [][(_destroyed /\ calls["create"] = 0)
          => /\ calls'["create"] = 0
             /\ edState' = "none"
             /\ instance' = Null
             /\ ~thrown']_vars

\* C1 witness: the promise resolved after ngOnDestroy and nothing was created.
C1_Witness ==
    /\ _destroyed
    /\ nsState = "resolved"
    /\ lastOp.op = "namespaceResolved"
    /\ calls["create"] = 0
    /\ instance = Null

\* C2: in every reachable state a destroyed component holds no instance.
C2_DestroyedHasNoInstance == _destroyed => instance = Null

\* C3: writing `data` (setter or writeValue) with the value `_data` already
\* holds calls no editor method and changes no component or editor state.
C3_SameValueIsNoOp ==
    [][(IsWrite(lastOp') /\ lastOp'.arg = _data)
          => /\ calls' = calls
             /\ out' = out
             /\ thrown' = thrown
             /\ UNCHANGED compVars
             /\ UNCHANGED editorVars]_vars

\* C3 witness: a live instance whose content the user has edited since, and
\* a writeValue of the value `_data` holds that pushed nothing.
C3_Witness ==
    /\ instance # Null
    /\ lastOp.op = "writeValue"
    /\ lastOp.arg = _data
    /\ _data \in Data
    /\ content # _data
    /\ noops["live"] = 1

\* C4: dataChange is emitted (once, with at most one onChange call) only by
\* a step that reads a value different from `_data`, and of two consecutive
\* native change-signal firings the second emits no dataChange and calls no
\* onChange.
C4_DataChangeOnlyOnDifference ==
    [][/\ out'["dataChange"] # out["dataChange"]
            => /\ content # _data
               /\ out'["dataChange"] = out["dataChange"] + 1
               /\ out'["onChange"] <= out["onChange"] + 1
               /\ _data' = content
       /\ out'["onChange"] # out["onChange"]
            => out'["dataChange"] = out["dataChange"] + 1
       /\ (lastOp.op = "native" /\ lastOp'.op = "native")
            => /\ out'["dataChange"] = out["dataChange"]
               /\ out'["onChange"] = out["onChange"]]_vars

\* C4 witness: two native dataReady firings, the first of which changed
\* `_data`, produced one dataChange.
C4_Witness ==
    /\ lastOp = Op("native", "dataReady")
    /\ out["dataReady"] = 2
    /\ out["dataChange"] = 1
    /\ calls["setData"] = 0
    /\ calls["fire"] = 0

\* C5: with data buffered before the instance exists, instanceReady emits
\* nothing itself; the completion callback of a component that is not torn
\* down emits the only ready notification, and before it the handshake emits
\* one typed change notification when the editor's value differs from the
\* buffered one and none when it is equal.
C5_BufferedHandshakeNotifications ==
    [][/\ (lastOp'.op = "instanceReady" /\ _data # Null)
            => (out' = out /\ cbPending')
       /\ (lastOp'.op = "setDataCallback" /\ ~_destroyed)
            => LET d == IF content # _data THEN 1 ELSE 0
               IN  /\ out["ready"] = 0
                   /\ out'["ready"] = 1
                   /\ calls'["fire"] = calls["fire"] + d
                   /\ Typed(out') = Typed(out) + d
                   /\ out'["dataChange"] = out["dataChange"] + d
       /\ out'["ready"] <= 1]_vars

\* C5 witness: the handshake of a live component ended with one synthesized
\* event and the ready notification.
C5_Witness ==
    /\ lastOp.op = "setDataCallback"
    /\ ~_destroyed
    /\ out["ready"] = 1
    /\ calls["fire"] = 1
    /\ Typed(out) = 1
    /\ out["dataChange"] = 1

\* C6: when the instance becomes ready while `_data` is null, the handshake
\* calls neither setData nor undoManager.lock / unlock, leaves no completion
\* callback outstanding and emits the ready notification itself; a ready
\* notification once emitted is never emitted again.
C6_NoPushWithoutBufferedData ==
    [][/\ (lastOp'.op = "instanceReady" /\ _data = Null)
            => /\ calls'["setData"] = calls["setData"]
               /\ calls'["lock"] = calls["lock"]
               /\ calls'["unlock"] = calls["unlock"]
               /\ content' = content
               /\ ~cbPending'
               /\ out = [o \in Outputs |-> 0]
               /\ out' = Inc(out, "ready")
       /\ out["ready"] >= 1 => out'["ready"] = out["ready"]]_vars

\* C6 witness: instanceReady ran with no buffered data and emitted ready.
C6_Witness ==
    /\ lastOp.op = "instanceReady"
    /\ _data = Null
    /\ out["ready"] = 1
    /\ calls["setData"] = 0
    /\ calls["lock"] = 0
    /\ ~cbPending

\* C7: a second write of the buffered value before the instance exists
\* changes nothing, and when the editor then stores the pushed value
\* unchanged the completion callback of a live component synthesizes no
\* event: it emits ready once and no change, dataReady, dataChange or
\* onChange.
C7_EqualValueHandshakeIsSilent ==
    [][/\ (IsWrite(lastOp') /\ instance = Null /\ lastOp'.arg = _data)
            => /\ _data' = _data
               /\ calls' = calls
               /\ out' = out
               /\ noops'["buffered"] = noops["buffered"] + 1
       /\ (lastOp'.op = "setDataCallback" /\ ~_destroyed /\ content = _data)
            => /\ out' = Inc(out, "ready")
               /\ out'["ready"] = 1
               /\ calls'["fire"] = calls["fire"]
               /\ _data' = _data]_vars

\* C7 witness: the only operations were two writes of one value before the
\* instance existed; the handshake pushed it, found it stored unchanged and
\* emitted ready alone.
C7_Witness ==
    /\ lastOp.op = "setDataCallback"
    /\ ~_destroyed
    /\ ops = 2
    /\ noops["buffered"] = 1
    /\ _data \in Data
    /\ content = _data
    /\ calls["setData"] = 1
    /\ calls["getData"] = 1
    /\ calls["fire"] = 0
    /\ out = [o \in Outputs |-> IF o = "ready" THEN 1 ELSE 0]

\* C8: instance.setReadOnly is called only by the instanceReady handshake
\* and by the readOnly setter, once per step; the handshake is its first
\* call, applies a buffered flag to the editor and keeps `_readOnly`.
C8_BufferedReadOnlyAppliedOnce ==
    [][/\ calls'["setReadOnly"] # calls["setReadOnly"]
            => /\ calls'["setReadOnly"] = calls["setReadOnly"] + 1
               /\ lastOp'.op \in {"instanceReady", "readOnly"}
       /\ lastOp'.op = "instanceReady"
            => /\ calls["setReadOnly"] = 0
               /\ calls'["setReadOnly"] = 1
               /\ _readOnly' = _readOnly
               /\ _readOnly # Null => edReadOnly' = _readOnly]_vars

\* C8 witness: a flag buffered before creation was applied by the handshake
\* and, native events later, setReadOnly has still been called once.
C8_Witness ==
    /\ _readOnly # Null
    /\ edState = "ready"
    /\ edReadOnly = _readOnly
    /\ calls["setReadOnly"] = 1
    /\ lastOp.op = "native"
    /\ ops = MaxOps

\* C9: with an instance the readOnly setter calls instance.setReadOnly(flag)
\* in the same step and keeps `_readOnly`; without one it stores the flag in
\* `_readOnly` and calls no editor method.
C9_ReadOnlySetterDelegatesOrBuffers ==
    [][lastOp'.op = "readOnly"
          => IF instance # Null
             THEN /\ calls' = Inc(calls, "setReadOnly")
                  /\ edReadOnly' = lastOp'.arg
                  /\ _readOnly' = _readOnly
             ELSE /\ _readOnly' = lastOp'.arg
                  /\ calls' = calls
                  /\ UNCHANGED editorVars]_vars

\* C9 witness: the setter ran on a live instance with a flag other than the
\* buffered one, which is still buffered.
C9_Witness ==
    /\ lastOp.op = "readOnly"
    /\ instance # Null
    /\ edReadOnly = lastOp.arg
    /\ _readOnly # Null
    /\ _readOnly # lastOp.arg
    /\ calls["setReadOnly"] = 2

\* C10: writing a value other than `_data` to a live instance calls setData
\* and getData once each and leaves `_data` equal to the editor's content.
C10_LiveWriteStoresEditorValue ==
    [][(IsWrite(lastOp') /\ instance # Null /\ lastOp'.arg # _data)
          => /\ calls' = Inc(Inc(calls, "setData"), "getData")
             /\ _data' = content']_vars

\* C10 witness: a write to a live instance after which `_data` is the
\* editor's value and not the value written.
C10_Witness ==
    /\ lastOp.op = "data"
    /\ instance # Null
    /\ lastOp.arg \in Data
    /\ _data # lastOp.arg
    /\ _data = content
    /\ calls["setData"] = 1
    /\ noops["live"] = 0

\* C12 (as claimed): while an instance exists `_data` equals the editor's
\* getData() after every emitted ready notification, after every completed
\* `data` setter call and after every run of the change handler.
C12_DataMatchesEditorWhenQuiescent ==
    (/\ instance # Null
     /\ \/ lastOp.op \in {"native", "data", "writeValue"}
        \/ lastOp.op \in {"instanceReady", "setDataCallback"} /\ out["ready"] >= 1)
        => _data = content

\* C12 (amended): while an instance exists `_data` equals the editor's
\* getData() after the ready notification emitted by the setData completion
\* callback, after every `data` setter call that wrote a value other than
\* `_data`, and after every run of the change handler.
C12_DataMatchesEditorAfterSync ==
    [][/\ (/\ lastOp'.op = "setDataCallback"
           /\ instance' # Null
           /\ out'["ready"] = out["ready"] + 1) => _data' = content'
       /\ (IsWrite(lastOp') /\ instance # Null /\ lastOp'.arg # _data)
            => _data' = content'
       /\ lastOp'.op = "native" => (instance' # Null /\ _data' = content')]_vars

\* C12 witness: a handshake whose pushed value the editor changed ended with
\* `_data` equal to the editor's value.
C12_Witness ==
    /\ lastOp.op = "setDataCallback"
    /\ instance # Null
    /\ calls["fire"] = 1
    /\ calls["setData"] = 1
    /\ out["ready"] = 1
    /\ _data = content

\* C14: once ngOnDestroy has run, the editor createEditor started has had
\* destroy() called exactly once.
C14_CreatedEditorDestroyedOnce ==
    (lastOp.op = "ngOnDestroy" /\ calls["create"] = 1) => calls["destroy"] = 1

\* C15: a rejected namespace resolution is logged once and raises nothing;
\* from then on no editor is created, no editor method is called, `instance`
\* stays null, and writes to `data` and `readOnly` are buffered in `_data` and
\* `_readOnly`.
C15_RejectionIsFinal ==
    [][/\ lastOp'.op = "namespaceRejected"
            => /\ logged' = logged + 1
               /\ nsState' = "rejected"
       /\ (nsState = "rejected" \/ lastOp'.op = "namespaceRejected")
            => /\ nsState' = "rejected"
               /\ calls' = calls
               /\ calls'["create"] = 0
               /\ edState' = "none"
               /\ instance' = Null
               /\ ~thrown'
               /\ nsState = "rejected" => logged' = logged
               /\ IsWrite(lastOp') => _data' = lastOp'.arg
               /\ lastOp'.op = "readOnly" => _readOnly' = lastOp'.arg]_vars

\* C15 witness: after the rejection a value and a read-only flag were
\* buffered and there is still no instance.
C15_Witness ==
    /\ nsState = "rejected"
    /\ logged = 1
    /\ lastOp.op = "readOnly"
    /\ _readOnly = lastOp.arg
    /\ _data \in Data
    /\ instance = Null
    /\ edState = "none"

\* The entries of a trail that name `ev`.
Entries(t, ev) == {i \in DOMAIN t : t[i].ev = ev}

\* C11: with no instance a write of `data` only buffers: `_data` (what the
\* getter returns) becomes the value written and no editor method is called;
\* nothing else changes `_data` while there is no instance; and the handshake
\* passes the buffered value, when it is not null, to editor.setData.
C11_BufferedValueReachesEditor ==
    [][/\ (IsWrite(lastOp') /\ instance = Null)
            => /\ DataGet' = lastOp'.arg
               /\ calls' = calls
               /\ trail' = <<>>
               /\ UNCHANGED editorVars
       /\ (instance = Null /\ ~IsWrite(lastOp') /\ lastOp'.op # "instanceReady")
            => _data' = _data
       /\ (lastOp'.op = "instanceReady" /\ _data # Null)
            => /\ Cardinality(Entries(trail', "setData")) = 1
               /\ \A i \in Entries(trail', "setData") : trail'[i].arg = _data
               /\ calls'["setData"] = calls["setData"] + 1]_vars

\* C11 witness: two different values were buffered and the handshake gave
\* the second one to editor.setData.
C11_Witness ==
    /\ lastOp.op = "instanceReady"
    /\ ops = 2
    /\ noops["buffered"] = 0
    /\ _readOnly = Null
    /\ onChange = Null
    /\ _data = "b"
    /\ \E i \in DOMAIN trail : trail[i].ev = "setData" /\ trail[i].arg = "b"

\* C16: the handshake binds exactly one handler to each of the nine relayed
\* events, and each firing of one of them emits once on the output of that
\* name, with the event as payload, and on no other output.
C16_RelayedOncePerFiring ==
    [][/\ lastOp'.op = "instanceReady"
            => \A n \in RelayEvents :
                  /\ n \in subs'
                  /\ Cardinality({i \in Entries(trail', "on") : trail'[i].arg = n}) = 1
       /\ lastOp'.op = "relay"
            => LET n == lastOp'.arg
                   o == RelayOutput[n]
               IN  /\ Cardinality(Entries(trail', o)) = 1
                   /\ \A i \in Entries(trail', o) : trail'[i].arg = n
                   /\ \A other \in Outputs \ {"onChange", "onTouched"} :
                         out'[other] = out[other] + (IF other = o THEN 1 ELSE 0)]_vars

\* C16 witness: a native dragend was relayed as one dragEnd emission.
C16_Witness ==
    /\ lastOp = Op("relay", "dragend")
    /\ out["dragEnd"] = 1
    /\ Len(trail) = 2
    /\ trail[2].ev = "dragEnd"
    /\ trail[2].arg = "dragend"

\* C17: a native blur calls the registered onTouched once and then emits
\* blur; with no onTouched registered it emits blur alone.
C17_TouchedBeforeBlur ==
    [][(lastOp'.op = "relay" /\ lastOp'.arg = "blur")
         => LET t == trail'
            IN  /\ out'["blur"] = out["blur"] + 1
                /\ IF onTouched # Null
                   THEN /\ out'["onTouched"] = out["onTouched"] + 1
                        /\ Len(t) = 3
                        /\ t[2].ev = "onTouched"
                        /\ t[2].fn = onTouched
                        /\ t[3].ev = "blur"
                   ELSE /\ out'["onTouched"] = out["onTouched"]
                        /\ Len(t) = 2
                        /\ t[2].ev = "blur"]_vars

\* C17 witness: a blur with a registered onTouched.
C17_Witness ==
    /\ lastOp = Op("relay", "blur")
    /\ onTouched # Null
    /\ out["onTouched"] = 1
    /\ out["blur"] = 1

\* C18: a registration replaces the callback held, nothing else changes it,
\* and every onChange / onTouched invocation calls the callback held, which
\* is the one registered last.
C18_OnlyLatestCallbackInvoked ==
    [][/\ lastOp'.op = "registerOnChange" => onChange' = lastOp'.arg
       /\ lastOp'.op = "registerOnTouched" => onTouched' = lastOp'.arg
       /\ lastOp'.op # "registerOnChange" => onChange' = onChange
       /\ lastOp'.op # "registerOnTouched" => onTouched' = onTouched
       /\ \A i \in Entries(trail', "onChange") : trail'[i].fn = onChange'
       /\ \A i \in Entries(trail', "onTouched") : trail'[i].fn = onTouched'
       /\ \A i \in DOMAIN trail' :
             trail'[i].fn # Null => trail'[i].ev \in {"onChange", "onTouched"}]_vars

\* C18 witness: two change callbacks were registered and a native event
\* then invoked the second one.
C18_Witness ==
    /\ registered.onChange = Callbacks
    /\ lastOp.op = "native"
    /\ onChange = "cb2"
    /\ \E i \in Entries(trail, "onChange") : trail[i].fn = "cb2"

\* C19: the editor is created and destroyed outside the zone, every output
\* emission and every onChange / onTouched call is made inside it, a native
\* event enters the zone exactly once, and the handshake enters it once for
\* the ready notification and once for the event it synthesizes.
C19_ZoneBoundary ==
    [][/\ \A i \in DOMAIN trail' :
             /\ trail'[i].ev \in {"create", "destroy"} => ~trail'[i].zone
             /\ trail'[i].ev \in Outputs => trail'[i].zone
       /\ lastOp'.op \in {"native", "relay"}
            => Cardinality(Entries(trail', "ngZone.run")) = 1
       /\ lastOp'.op \in {"instanceReady", "setDataCallback"}
            => Cardinality(Entries(trail', "ngZone.run"))
                 = Cardinality(Entries(trail', "ready"))
                     + Cardinality({i \in Entries(trail', "fire") : trail'[i].arg \in subs'})
       /\ lastOp'.op = "namespaceResolved" /\ ~_destroyed
            => Cardinality(Entries(trail', "create")) = 1
       /\ lastOp'.op = "ngOnDestroy" /\ instance # Null
            => Cardinality(Entries(trail', "destroy")) = 1]_vars

\* C19 witness: an editor that relayed a blur is destroyed outside the zone.
C19_Witness ==
    /\ lastOp.op = "ngOnDestroy"
    /\ out["blur"] = 1
    /\ out["ready"] = 1
    /\ \E i \in Entries(trail, "destroy") : ~trail[i].zone

\* C13: a component's `instance` is the editor it created, and a
\* component's instanceReady handshake runs only for that editor.
C13_EditorOwnedByItsCreator ==
    /\ \A c \in Comps : shared.instance[c] \in {Null, c}
    /\ \A p \in shared.handshakes : p[1] = p[2]

\* C20: over all components namespaceLoaded is emitted at most once.
C20_NamespaceLoadedAtMostOnce ==
    shared.nsLoaded["A"] + shared.nsLoaded["B"] <= 1

\* C20 witness: both components ran ngAfterViewInit, both promises
\* resolved, and one namespaceLoaded was emitted.
C20_Witness ==
    /\ \A c \in Comps : shared.ns[c] = "resolved"
    /\ shared.nsLoaded["A"] + shared.nsLoaded["B"] = 1

\* C21: a native change emits the change output and a native dataReady the
\* dataReady output, right after the editor was read and whether or not the
\* value differs; a selectionCheck emits neither.
C21_TypedOutputBeforeEqualityCheck ==
    [][lastOp'.op = "native"
         => LET n == lastOp'.arg
                t == trail'
            IN  /\ out'["change"] = out["change"] + (IF n = "change" THEN 1 ELSE 0)
                /\ out'["dataReady"] = out["dataReady"] + (IF n = "dataReady" THEN 1 ELSE 0)
                /\ n \in {"change", "dataReady"}
                     => /\ Len(t) >= 3
                        /\ t[2].ev = "getData"
                        /\ t[3].ev = n
                        /\ t[3].arg = n
                /\ n = "selectionCheck"
                     => Entries(t, "change") \cup Entries(t, "dataReady") = {}]_vars

\* C21 witness: a native change with unchanged data emitted change and
\* nothing after it.
C21_Witness ==
    /\ lastOp = Op("native", "change")
    /\ Len(trail) = 3
    /\ trail[3].ev = "change"
    /\ out["dataChange"] = 0
    /\ _data = content

\* C22: the change handler of a live editor is bound to change exactly
\* when the editor has an undoManager, otherwise to selectionCheck, and to
\* no other native event.
C22_HandlerOnOneEventOnly ==
    edState = "ready"
        => subs \ RelayEvents = (IF hasUndo THEN {"change"} ELSE {"selectionCheck"})

\* C22 (amended): the handshake binds the change handler once to dataReady
\* and once to exactly one of change (the editor has an undoManager) and
\* selectionCheck (it has none), and to no other event.
C22_HandlerOnDataReadyAndOneSignal ==
    [][lastOp'.op = "instanceReady"
         => /\ subs' \ RelayEvents
                 = {"dataReady"} \cup (IF hasUndo THEN {"change"} ELSE {"selectionCheck"})
            /\ \A n \in ChangeSignals :
                  Cardinality({i \in Entries(trail', "on") : trail'[i].arg = n})
                      = (IF n \in subs' THEN 1 ELSE 0)
            /\ \A i \in Entries(trail', "on") :
                  trail'[i].arg \in RelayEvents \cup ChangeSignals]_vars

\* C22 witness: an editor without undoManager is ready, with the handler
\* on selectionCheck and not on change.
C22_Witness ==
    /\ edState = "ready"
    /\ ~hasUndo
    /\ "selectionCheck" \in subs
    /\ "change" \notin subs

\* C23: a propagation stores the value read in `_data`, then emits
\* dataChange with it, then calls onChange (when registered) with it, each
\* once; it happens whenever the handler reads a value other than `_data`,
\* and onChange is never called without the two steps before it.
C23_StoreThenEmitThenCallback ==
    [][LET t == trail'
       IN  /\ Cardinality(Entries(t, "_data")) <= 1
           /\ Cardinality(Entries(t, "dataChange")) = Cardinality(Entries(t, "_data"))
           /\ Cardinality(Entries(t, "onChange"))
                 = (IF onChange # Null THEN Cardinality(Entries(t, "_data")) ELSE 0)
           /\ \A i \in Entries(t, "_data") :
                 /\ _data' = t[i].arg
                 /\ i + 1 \in DOMAIN t
                 /\ t[i + 1].ev = "dataChange"
                 /\ t[i + 1].arg = t[i].arg
           /\ \A i \in Entries(t, "onChange") :
                 /\ i > 2
                 /\ t[i - 1].ev = "dataChange"
                 /\ t[i - 1].arg = t[i].arg
                 /\ t[i - 2].ev = "_data"
                 /\ _data' = t[i].arg
           /\ (lastOp'.op = "native" /\ content # _data)
                 => /\ Cardinality(Entries(t, "_data")) = 1
                    /\ _data' = content]_vars

\* C23 witness: a native event propagated an edited value to a registered
\* onChange.
C23_Witness ==
    /\ lastOp.op = "native"
    /\ onChange # Null
    /\ \E i \in Entries(trail, "onChange") : trail[i].arg = _data
    /\ _data = content

\* C24: the setData completion callback synthesizes exactly one event when
\* the editor's value differs from `_data` (change with an undoManager,
\* dataReady without), after which `_data` is the editor's value and
\* dataChange / onChange carried it before ready; with equal values it
\* synthesizes none.
C24_DivergenceSynthesizesOneEvent ==
    [][lastOp'.op = "setDataCallback"
         => LET t == trail'
                name == IF hasUndo THEN "change" ELSE "dataReady"
            IN  IF content # _data
                THEN /\ Cardinality(Entries(t, "fire")) = 1
                     /\ \A i \in Entries(t, "fire") : t[i].arg = name
                     /\ _data' = content
                     /\ \E i \in Entries(t, "dataChange"), j \in Entries(t, "ready") :
                           /\ i < j
                           /\ t[i].arg = content
                     /\ onChange # Null
                          => \E k \in Entries(t, "onChange"), j \in Entries(t, "ready") :
                                /\ k < j
                                /\ t[k].arg = content
                ELSE /\ Entries(t, "fire") = {}
                     /\ out'["dataChange"] = out["dataChange"]
                     /\ out'["onChange"] = out["onChange"]]_vars

\* The events of a trail, in order.
Evs(t) == [i \in DOMAIN t |-> t[i].ev]

\* The editor.on calls subscribe makes.
Bound == [i \in 1..Len(subscribe) |-> "on"]

\* C25: the handshake stores the instance, applies read-only, subscribes,
\* locks the undoManager (if any) and calls setData; the completion callback
\* checks for divergence, unlocks, calls the user's instanceReady callback
\* and emits ready last; without buffered data the user callback and ready
\* follow the subscriptions; each lock is followed by its unlock and the
\* user callback runs once, before ready.
C25_HandshakeOrder ==
    [][LET t == trail'
           user == IF userInstanceReadyCallback # Null
                   THEN <<"userInstanceReadyCallback">>
                   ELSE <<>>
           notify == <<"ngZone.run">> \o user \o <<"ready">>
       IN  /\ (lastOp'.op = "instanceReady" /\ _data # Null)
                => Evs(t) = <<"instance", "setReadOnly">> \o Bound
                              \o (IF hasUndo THEN <<"lock">> ELSE <<>>) \o <<"setData">>
           /\ (lastOp'.op = "instanceReady" /\ _data = Null)
                => Evs(t) = <<"instance", "setReadOnly">> \o Bound \o notify
           /\ lastOp'.op = "setDataCallback"
                => /\ t[1].ev = "getData"
                   /\ Len(t) > Len(notify)
                   /\ SubSeq(Evs(t), Len(t) - Len(notify) + 1, Len(t)) = notify
                   /\ hasUndo => t[Len(t) - Len(notify)].ev = "unlock"
                   /\ calls'["unlock"] = calls'["lock"]
                   /\ ~undoLocked'
                   /\ Cardinality(Entries(t, "userInstanceReadyCallback")) = Len(user)]_vars

\* C26: once the handshake has applied the read-only state, the editor's
\* state is the buffered `_readOnly` when one was buffered and the state the
\* editor had at ready time otherwise.
C26_HandshakeReadOnlyState ==
    [][lastOp'.op = "instanceReady"
         => /\ edReadOnly' = (IF _readOnly # Null THEN _readOnly ELSE edReadOnly)
            /\ Cardinality(Entries(trail', "setReadOnly")) = 1
            /\ \A i \in Entries(trail', "setReadOnly") : trail'[i].arg = edReadOnly']_vars

\* C26 witness: nothing was buffered and the read-only editor stayed
\* read-only.
C26_Witness ==
    /\ lastOp.op = "instanceReady"
    /\ _readOnly = Null
    /\ edReadOnly = "true"
    /\ calls["setReadOnly"] = 1

\* C27: the readOnly getter returns the editor's state while an instance
\* exists and `_readOnly` otherwise; a change made while the instance lives
\* leaves `_readOnly` alone, so right after teardown the getter returns what
\* was buffered before creation (or null).
C27_ReadOnlyGetterLiveOrBuffered ==
    [][/\ ReadOnlyGet' = (IF instance' # Null THEN edReadOnly' ELSE _readOnly')
       /\ instance # Null => _readOnly' = _readOnly
       /\ lastOp'.op = "ngOnDestroy" => ReadOnlyGet' = _readOnly]_vars

\* C27 witness: "true" was buffered, the live editor was then made
\* writable, and after teardown the getter returns "true".
C27_Witness ==
    /\ lastOp.op = "ngOnDestroy"
    /\ calls["destroy"] = 1
    /\ calls["setReadOnly"] = 2
    /\ edReadOnly = "false"
    /\ _readOnly = "true"
    /\ ReadOnlyGet = "true"

\* C28: a write of `data` emits no dataChange and calls no onChange, and a
\* native event that follows a write to a live instance does neither.
C28_WriteNeverEchoed ==
    [][/\ IsWrite(lastOp')
            => /\ out'["dataChange"] = out["dataChange"]
               /\ out'["onChange"] = out["onChange"]
       /\ (IsWrite(lastOp) /\ instance # Null /\ lastOp'.op = "native")
            => /\ out'["dataChange"] = out["dataChange"]
               /\ out'["onChange"] = out["onChange"]]_vars

\* C28 (amended): a write of `data` emits no dataChange and calls no
\* onChange, and a native event that follows a write which pushed its value
\* into the live instance does neither, whatever the editor stored.
C28_PushedWriteNeverEchoed ==
    [][/\ IsWrite(lastOp')
            => /\ out'["dataChange"] = out["dataChange"]
               /\ out'["onChange"] = out["onChange"]
               /\ Entries(trail', "dataChange") \cup Entries(trail', "onChange") = {}
       /\ (IsWrite(lastOp) /\ Entries(trail, "setData") # {} /\ lastOp'.op = "native")
            => /\ out'["dataChange"] = out["dataChange"]
               /\ out'["onChange"] = out["onChange"]]_vars

\* C28 witness: an editor that became ready without buffered data was
\* written to and then fired a native event, with no dataChange at all.
C28_Witness ==
    /\ lastOp.op = "native"
    /\ ops = 2
    /\ hasUndo
    /\ calls["lock"] = 0
    /\ calls["setData"] = 1
    /\ out["ready"] = 1
    /\ out["dataChange"] = 0
    /\ out["onChange"] = 0

\* C29: once ngOnDestroy has run the component emits no ready, change,
\* dataReady or dataChange and calls neither the user's instanceReady
\* callback nor onChange.
C29_SilentAfterDestroy ==
    [][_destroyed
         => /\ \A o \in {"ready", "change", "dataReady", "dataChange", "onChange"} :
                  out'[o] = out[o]
            /\ Entries(trail', "userInstanceReadyCallback") = {}]_vars

\* C30: propagateChange never runs while `instance` is null, so its
\* getData() call raises no TypeError.
C30_HandlerAlwaysHasInstance == ~thrown

\* C31: createEditor leaves the host's config object and its `on` object
\* as they were: config.on.instanceReady, absent when the host bound the
\* config, is still absent.
C31_ConfigLeftUntouched == shared.onReady = SharedInit.onReady

====
